---- MODULE Spec2Model ----
(***************************************************************************)
(* Model of the WhatsApp gateway of src/wha_api/index.js: one Baileys      *)
(* session socket (globalSocket), the Socket.IO clients, the send_message, *)
(* send_pdf and check_status handlers, the connection.update and           *)
(* messages.upsert handlers and connectToWhatsApp.                         *)
(***************************************************************************)
EXTENDS Naturals, Sequences, FiniteSets

\* ---------------------------------------------------------------- bounds
MaxAttempts == 3
MaxClients == 2
\* sends issued where the session moves under them
MaxReq == 1
\* sends issued where they overlap
MaxConcurrent == 2
MaxUpserts == 1
MaxBatch == 2

Clients == 1..MaxClients
\* handler invocations: MaxReq where one send is followed, MaxConcurrent where sends overlap
Reqs == 1..MaxConcurrent
Socks == 1..MaxAttempts

Undefined == <<"undefined">>
Suffix == <<"@s.whatsapp.net">>
DigitChars == {"0", "1", "2", "3", "4", "5", "6", "7", "8", "9"}
\* the `number` field of the request data: two strings and a missing field
NumberInputs == {<<"5", "7">>, <<"+", "5", " ", "7">>, Undefined}
\* error.message of a rejection of sock.sendMessage ("" : an error without message)
NetReasons == {"Connection Closed", ""}
CloseReasons == {"loggedOut", "connectionLost", "noError"}

VARIABLES
    started,       \* the listen callback has run
    globalSocket,  \* 0 is null, else the socket last created
    sockState,     \* per socket: the connection state of the network library
    connecting,    \* calls of connectToWhatsApp that have not created their socket yet
    attempts,      \* calls of connectToWhatsApp so far
    loggedOut,     \* the most recent 'close' update had reason loggedOut
    clientState,   \* per Socket.IO client: "new", "connected", "gone"
    inbox,         \* per client: the keep_alive and result events it was sent
    heard,         \* per client: what the latest handler that broadcast sent it, in order
    emitted,       \* the io.emit calls of the latest handler that broadcast, in order
    lastStatus,    \* the status of the most recent connection_status broadcast ("none": none yet)
    upserts,       \* 'messages.upsert' events handled so far
    req,           \* per request id: the handler invocation
    nreq,          \* requests issued so far
    pdfExists,     \* fs.existsSync(pdfFilePath)
    checked        \* the most recent check_status answer, with the session state and the
                   \* number of pending sends at the moment it was given

vars == <<started, globalSocket, sockState, connecting, attempts, loggedOut,
          clientState, inbox, heard, emitted, lastStatus, upserts, req, nreq, pdfExists,
          checked>>

sessionVars == <<started, globalSocket, sockState, connecting, attempts, loggedOut>>
msgVars == <<upserts>>

\* ------------------------------------------------------------ result values
Failure(text) == [success |-> FALSE, text |-> text]
Success(text) == [success |-> TRUE, text |-> text]

SessionNotConnected == Failure("WhatsApp no esta conectado")
ResourceMissing == Failure("El archivo PDF no existe")
TypeErrorResult == Failure("TypeError")

TimeoutText(kind) ==
    IF kind = "send_pdf" THEN "Timeout al enviar PDF" ELSE "Timeout al enviar mensaje"
SendTimeout(kind) == Failure(TimeoutText(kind))

DefaultErrorText(kind) ==
    IF kind = "send_pdf" THEN "Error al enviar PDF" ELSE "Error al enviar mensaje"
\* error.message || '<default>'
ErrorText(kind, msg) == IF msg # "" THEN msg ELSE DefaultErrorText(kind)
SendFailed(kind, msg) == Failure(ErrorText(kind, msg))

SuccessText(kind) ==
    IF kind = "send_pdf" THEN "PDF enviado correctamente" ELSE "Mensaje enviado correctamente"

\* ------------------------------------------------------------ number format
RECURSIVE StripNonDigits(_)
StripNonDigits(s) ==
    IF s = <<>> THEN <<>>
    ELSE IF Head(s) \in DigitChars THEN <<Head(s)>> \o StripNonDigits(Tail(s))
    ELSE StripNonDigits(Tail(s))

\* number.replace(/[^\d]/g, '') + '@s.whatsapp.net'
FormatNumber_Raw(number) == number \o Suffix
FormatNumber(number) == StripNonDigits(number) \o Suffix

\* ------------------------------------------------------------ session state
\* The Session state of the specification, read off the network library's state of
\* the socket globalSocket refers to and the pending calls of connectToWhatsApp.
SessionState ==
    IF connecting > 0 THEN "Connecting"
    ELSE IF globalSocket = 0 THEN "Disconnected"
    ELSE CASE sockState[globalSocket] = "connecting" -> "Connecting"
           [] sockState[globalSocket] = "qr" -> "AwaitingChallenge"
           [] sockState[globalSocket] = "open" -> "Connected"
           [] OTHER -> "Disconnected"

Alive(s) == sockState[s] \in {"connecting", "qr", "open"}
Created == Cardinality({s \in Socks : sockState[s] # "none"})

\* ------------------------------------------------------------------ events
Event(type, id, arg) == [type |-> type, id |-> id, arg |-> arg]

Connected == {c \in Clients : clientState[c] = "connected"}

\* socket.emit / the acknowledgement callback: to one client, dropped when it is gone
EmitTo(inb, c, ev) ==
    IF clientState[c] = "connected" THEN [inb EXCEPT ![c] = @ \cup {ev}] ELSE inb

\* io.emit: to every client connected now; got is what each client was sent so far
EmitAll_Everyone(got, ev) == [c \in Clients |-> Append(got[c], ev)]
EmitAll(got, ev) ==
    [c \in Clients |-> IF clientState[c] = "connected" THEN Append(got[c], ev) ELSE got[c]]

RECURSIVE EmitSeq(_, _)
\* io.emit of each event of evs in order
EmitSeq(got, evs) ==
    IF evs = <<>> THEN got ELSE EmitSeq(EmitAll(got, Head(evs)), Tail(evs))

RECURSIVE LastStatus(_, _)
\* the status of the last connection_status among evs, prev when there is none
LastStatus(prev, evs) ==
    IF evs = <<>> THEN prev
    ELSE LastStatus(IF Head(evs).type = "connection_status" THEN Head(evs).arg ELSE prev,
                    Tail(evs))

\* the io.emit calls evs of one handler
Broadcast(evs) ==
    /\ lastStatus' = LastStatus(lastStatus, evs)
    /\ IF evs = <<>> THEN UNCHANGED <<heard, emitted>>
       ELSE /\ heard' = EmitSeq([c \in Clients |-> <<>>], evs)
            /\ emitted' = evs

\* a broadcast event carries no request id
Bc(type, arg) == Event(type, 0, arg)

\* ----------------------------------------------------------- initial state
Outcome(st, err) == [st |-> st, err |-> err]

\* A handler invocation. race: the Promise.race ("none" before it is built); net: the
\* sock.sendMessage promise and netErr the message of its rejection; timer: the
\* setTimeout; jid: the recipient handed to sock.sendMessage; answers: the calls of
\* callback; kaBefore, kaAfter: the calls of socket.emit('keep_alive') before and
\* after the await.
NoReq == [kind |-> "none", client |-> 0, jid |-> <<>>,
          race |-> Outcome("none", ""), net |-> "none", netErr |-> "", timer |-> "none",
          answers |-> <<>>, kaBefore |-> 0, kaAfter |-> 0]
NoCheck == [connected |-> FALSE, status |-> "none", during |-> "none", pending |-> 0]

Init ==
    /\ started = FALSE
    /\ globalSocket = 0
    /\ sockState = [s \in Socks |-> "none"]
    /\ connecting = 0
    /\ attempts = 0
    /\ loggedOut = FALSE
    /\ clientState = [c \in Clients |-> "new"]
    /\ inbox = [c \in Clients |-> {}]
    /\ heard = [c \in Clients |-> <<>>]
    /\ emitted = <<>>
    /\ lastStatus = "none"
    /\ upserts = 0
    /\ req = [r \in Reqs |-> NoReq]
    /\ nreq = 0
    /\ pdfExists \in BOOLEAN
    /\ checked = NoCheck

\* --------------------------------------------------------- session manager
\* connectToWhatsApp() up to its first await: the call is counted and is pending
CallConnect ==
    /\ attempts' = attempts + 1
    /\ connecting' = connecting + 1

\* server.listen callback
Start ==
    /\ ~started
    /\ started' = TRUE
    /\ attempts < MaxAttempts
    /\ CallConnect
    /\ UNCHANGED <<globalSocket, sockState, loggedOut, clientState, inbox, heard, emitted, lastStatus, msgVars,
                   req, nreq, pdfExists, checked>>

\* connectToWhatsApp after the await: makeWASocket, globalSocket = sock, handlers set
ConnectFinish ==
    /\ connecting > 0
    /\ Created < MaxAttempts
    /\ LET s == Created + 1 IN
        /\ sockState' = [sockState EXCEPT ![s] = "connecting"]
        /\ globalSocket' = s
    /\ connecting' = connecting - 1
    /\ UNCHANGED <<started, attempts, loggedOut, clientState, inbox, heard, emitted, lastStatus, msgVars,
                   req, nreq, pdfExists, checked>>

\* useMultiFileAuthState rejects or makeWASocket throws: no socket, nothing assigned
ConnectFail ==
    /\ connecting > 0
    /\ connecting' = connecting - 1
    /\ UNCHANGED <<started, globalSocket, sockState, attempts, loggedOut, clientState,
                   inbox, heard, emitted, lastStatus, msgVars, req, nreq, pdfExists, checked>>

\* (lastDisconnect.error)?.output?.statusCode !== DisconnectReason.loggedOut
ShouldReconnect_Always(reason) == TRUE
ShouldReconnect(reason) == reason # "loggedOut"

\* 'connection.update' carrying a qr
UpdateQr(s) ==
    /\ sockState[s] \in {"connecting", "qr"}
    /\ sockState' = [sockState EXCEPT ![s] = "qr"]
    /\ Broadcast(<<Bc("qr", "token")>>)
    /\ UNCHANGED <<started, globalSocket, connecting, attempts, loggedOut, clientState,
                   inbox, msgVars, req, nreq, pdfExists, checked>>

\* 'connection.update' with connection === 'open'
UpdateOpen(s) ==
    /\ sockState[s] \in {"connecting", "qr"}
    /\ sockState' = [sockState EXCEPT ![s] = "open"]
    /\ Broadcast(<<Bc("connection_status", "connected")>>)
    /\ UNCHANGED <<started, globalSocket, connecting, attempts, loggedOut, clientState,
                   inbox, msgVars, req, nreq, pdfExists, checked>>

\* io.emit('connection_status', { status: 'disconnected' }) follows the if, for every reason
CloseEvents_OnLogout(reason) ==
    IF reason = "loggedOut" THEN <<Bc("connection_status", "disconnected")>> ELSE <<>>
CloseEvents_OnReconnect(reason) ==
    IF reason # "loggedOut" THEN <<Bc("connection_status", "disconnected")>> ELSE <<>>
CloseEvents(reason) == <<Bc("connection_status", "disconnected")>>

\* 'connection.update' with connection === 'close'
UpdateClose(s, reason) ==
    /\ Alive(s)
    /\ sockState' = [sockState EXCEPT ![s] = "closed"]
    /\ loggedOut' = (reason = "loggedOut")
    /\ IF ShouldReconnect(reason)
         THEN attempts < MaxAttempts /\ CallConnect
         ELSE UNCHANGED <<attempts, connecting>>
    /\ Broadcast(CloseEvents(reason))
    /\ UNCHANGED <<started, globalSocket, clientState, inbox, msgVars, req, nreq, pdfExists,
                   checked>>

\* a further 'connection.update' with connection === 'close' from a socket that has
\* already delivered one: the handler keeps no record of the first and runs as before
UpdateCloseLate(s, reason) ==
    /\ sockState[s] = "closed"
    /\ loggedOut' = (reason = "loggedOut")
    /\ IF ShouldReconnect(reason)
         THEN attempts < MaxAttempts /\ CallConnect
         ELSE UNCHANGED <<attempts, connecting>>
    /\ Broadcast(CloseEvents(reason))
    /\ UNCHANGED <<started, globalSocket, sockState, clientState, inbox, msgVars, req, nreq,
                   pdfExists, checked>>

\* ------------------------------------------------------------- inbound messages
\* a message of the batch: has is message.message being set; conversation, extText,
\* caption and videoCaption are message.conversation, extendedTextMessage.text,
\* imageMessage.caption and videoMessage.caption ("" when absent or empty)
Msg(has, fromMe, conversation, extText, caption, videoCaption) ==
    [has |-> has, fromMe |-> fromMe, conversation |-> conversation,
     extText |-> extText, caption |-> caption, videoCaption |-> videoCaption]

MsgInputs ==
    { Msg(TRUE, FALSE, "hola", "", "", ""),
      Msg(TRUE, FALSE, "", "enlace", "", ""),
      Msg(TRUE, FALSE, "", "", "foto", ""),
      Msg(TRUE, FALSE, "", "", "", "clip"),
      Msg(TRUE, FALSE, "", "", "", ""),
      Msg(TRUE, TRUE, "hola", "", "", ""),
      Msg(FALSE, FALSE, "", "", "", "") }

\* conversation || extendedTextMessage.text || imageMessage.caption || 'Mensaje multimedia'
MessageBody_TextOnly(m) ==
    IF m.conversation # "" THEN m.conversation
    ELSE IF m.extText # "" THEN m.extText
    ELSE "Mensaje multimedia"
MessageBody(m) ==
    IF m.conversation # "" THEN m.conversation
    ELSE IF m.extText # "" THEN m.extText
    ELSE IF m.caption # "" THEN m.caption
    ELSE "Mensaje multimedia"

\* if (!message.message) continue; if (message.key.fromMe) continue;
Skipped_NoPayloadOnly(m) == ~m.has
Skipped(m) == ~m.has \/ m.fromMe

RECURSIVE NewMessages(_)
\* the new_message records the loop over the batch emits, in order
NewMessages(batch) ==
    IF batch = <<>> THEN <<>>
    ELSE IF Skipped(Head(batch)) THEN NewMessages(Tail(batch))
    ELSE <<Bc("new_message", MessageBody(Head(batch)))>> \o NewMessages(Tail(batch))

Batches == UNION {[1..n -> MsgInputs] : n \in 1..MaxBatch}

\* 'messages.upsert'
MessagesUpsert(s, batch) ==
    /\ sockState[s] = "open"
    /\ upserts < MaxUpserts
    /\ upserts' = upserts + 1
    /\ Broadcast(NewMessages(batch))
    /\ UNCHANGED <<sessionVars, clientState, inbox, req, nreq, pdfExists, checked>>

\* ------------------------------------------------------------------ clients
\* io.on('connection'): the handlers are registered, nothing is emitted
ClientConnect(c) ==
    /\ started
    /\ clientState[c] = "new"
    /\ clientState' = [clientState EXCEPT ![c] = "connected"]
    /\ UNCHANGED <<sessionVars, inbox, heard, emitted, lastStatus, msgVars, req, nreq, pdfExists, checked>>

\* socket.on('disconnect')
ClientDisconnect(c) ==
    /\ clientState[c] = "connected"
    /\ clientState' = [clientState EXCEPT ![c] = "gone"]
    /\ UNCHANGED <<sessionVars, inbox, heard, emitted, lastStatus, msgVars, req, nreq, pdfExists, checked>>

\* the document file appears or disappears on disk
AssetChange ==
    /\ pdfExists' = ~pdfExists
    /\ UNCHANGED <<sessionVars, clientState, inbox, heard, emitted, lastStatus, msgVars, req, nreq, checked>>

\* socket.on('check_status')
StatusAnswer_Live(gs) ==
    [connected |-> SessionState = "Connected",
     status |-> IF SessionState = "Connected" THEN "connected" ELSE "disconnected"]
StatusAnswer(gs) ==
    [connected |-> gs # 0, status |-> IF gs # 0 THEN "connected" ELSE "disconnected"]

\* the sends that are waiting on their Promise.race
Pending == {r \in Reqs : req[r].race.st = "pending"}

\* the handler is synchronous: it answers in the step in which the event arrives
CheckStatus_WhenIdle(c) ==
    /\ clientState[c] = "connected"
    /\ Pending = {}
    /\ checked' = [connected |-> StatusAnswer(globalSocket).connected,
                   status |-> StatusAnswer(globalSocket).status,
                   during |-> SessionState, pending |-> Cardinality(Pending)]
    /\ UNCHANGED <<sessionVars, clientState, inbox, heard, emitted, lastStatus, msgVars, req, nreq, pdfExists>>
CheckStatus(c) ==
    /\ clientState[c] = "connected"
    /\ checked' = [connected |-> StatusAnswer(globalSocket).connected,
                   status |-> StatusAnswer(globalSocket).status,
                   during |-> SessionState, pending |-> Cardinality(Pending)]
    /\ UNCHANGED <<sessionVars, clientState, inbox, heard, emitted, lastStatus, msgVars, req, nreq, pdfExists>>

\* ------------------------------------------------------------ send handlers
\* if (!globalSocket)
NoSession(gs) == gs = 0

\* number.replace throws a TypeError unless number is a string
Throws(number) == number = Undefined

\* !fs.existsSync(pdfFilePath)
AssetMissing_Never(exists) == FALSE
AssetMissing(exists) == ~exists

\* callback(result): the acknowledgement of the requesting socket
Reply_Broadcast(inb, c, ev) ==
    [d \in Clients |-> IF clientState[d] = "connected" THEN inb[d] \cup {ev} ELSE inb[d]]
Reply(inb, c, ev) == EmitTo(inb, c, ev)

\* socket.emit('keep_alive')
KeepAlive(inb, c, ev) == EmitTo(inb, c, ev)

\* Promise.race: the first settlement wins, later ones are ignored
RaceWinner_Last(race, ev) == ev
RaceWinner(race, ev) == IF race.st = "pending" THEN ev ELSE race

\* the keep_alive after the await is in the try block: reached when the race resolved
KeepAliveAfter_Always(outcome) == TRUE
KeepAliveAfter(outcome) == outcome.st = "resolved"

\* what the handler answers once the race has settled with outcome
SettledResult_Generic(kind, outcome) ==
    IF outcome.st = "resolved" THEN Success(SuccessText(kind))
    ELSE Failure(DefaultErrorText(kind))
SettledResult(kind, outcome) ==
    IF outcome.st = "resolved" THEN Success(SuccessText(kind))
    ELSE SendFailed(kind, outcome.err)

NewReq(kind, c) == [NoReq EXCEPT !.kind = kind, !.client = c]

\* the handler answers result at once and returns
Reject_NoReturn(r, rec, result) ==
    /\ req' = [req EXCEPT ![r] = [rec EXCEPT !.answers = <<result, TypeErrorResult>>]]
    /\ inbox' = Reply(Reply(inbox, rec.client, Event("result", r, result.text)),
                      rec.client, Event("result", r, TypeErrorResult.text))
Reject(r, rec, result) ==
    /\ req' = [req EXCEPT ![r] = [rec EXCEPT !.answers = Append(@, result)]]
    /\ inbox' = Reply(inbox, rec.client, Event("result", r, result.text))

\* keep_alive, then sock.sendMessage and the timer are started and the handler awaits
Dispatch(r, rec, number) ==
    /\ req' = [req EXCEPT ![r] = [rec EXCEPT !.jid = FormatNumber(number),
                                            !.race = Outcome("pending", ""),
                                            !.net = "inflight",
                                            !.timer = "armed",
                                            !.kaBefore = @ + 1]]
    /\ inbox' = KeepAlive(inbox, rec.client, Event("keep_alive", r, "before"))

\* socket.on('send_message')
SendMessage(c, number) ==
    /\ clientState[c] = "connected"
    /\ nreq < MaxConcurrent
    /\ nreq' = nreq + 1
    /\ LET r == nreq + 1
           rec == NewReq("send_message", c) IN
        IF NoSession(globalSocket) THEN Reject(r, rec, SessionNotConnected)
        ELSE IF Throws(number) THEN Reject(r, rec, TypeErrorResult)
        ELSE Dispatch(r, rec, number)
    /\ UNCHANGED <<sessionVars, clientState, heard, emitted, lastStatus, msgVars, pdfExists, checked>>

\* socket.on('send_pdf')
SendPdf(c, number) ==
    /\ clientState[c] = "connected"
    /\ nreq < MaxConcurrent
    /\ nreq' = nreq + 1
    /\ LET r == nreq + 1
           rec == NewReq("send_pdf", c) IN
        IF NoSession(globalSocket) THEN Reject(r, rec, SessionNotConnected)
        ELSE IF Throws(number) THEN Reject(r, rec, TypeErrorResult)
        ELSE IF AssetMissing(pdfExists) THEN Reject(r, rec, ResourceMissing)
        ELSE Dispatch(r, rec, number)
    /\ UNCHANGED <<sessionVars, clientState, heard, emitted, lastStatus, msgVars, pdfExists, checked>>

\* One of the two racing promises settles with ev; rec is the request with that
\* promise's own state already updated. The handler resumes when the race settles.
Settle(r, rec, ev) ==
    LET new == RaceWinner(rec.race, ev)
        raced == [rec EXCEPT !.race = new] IN
    IF new = rec.race THEN
        /\ req' = [req EXCEPT ![r] = raced]
        /\ inbox' = inbox
    ELSE
        LET result == SettledResult(rec.kind, new)
            ka == KeepAliveAfter(new)
            inb == IF ka THEN KeepAlive(inbox, rec.client, Event("keep_alive", r, "after"))
                   ELSE inbox IN
        /\ req' = [req EXCEPT ![r] = [raced EXCEPT !.answers = Append(@, result),
                                                   !.kaAfter = IF ka THEN @ + 1 ELSE @]]
        /\ inbox' = Reply(inb, rec.client, Event("result", r, result.text))

\* sock.sendMessage resolves
NetAck_InOrder(r) ==
    /\ req[r].net = "inflight"
    /\ \A q \in Reqs : q < r => req[q].race.st # "pending"
    /\ Settle(r, [req[r] EXCEPT !.net = "acked"],
              Outcome("resolved", ""))
    /\ UNCHANGED <<sessionVars, clientState, heard, emitted, lastStatus, msgVars, nreq, pdfExists, checked>>
NetAck(r) ==
    /\ req[r].net = "inflight"
    /\ Settle(r, [req[r] EXCEPT !.net = "acked"],
              Outcome("resolved", ""))
    /\ UNCHANGED <<sessionVars, clientState, heard, emitted, lastStatus, msgVars, nreq, pdfExists, checked>>

\* sock.sendMessage rejects with an error whose message is reason
NetFail(r, reason) ==
    /\ req[r].net = "inflight"
    /\ Settle(r, [req[r] EXCEPT !.net = "failed", !.netErr = reason],
              Outcome("rejected", reason))
    /\ UNCHANGED <<sessionVars, clientState, heard, emitted, lastStatus, msgVars, nreq, pdfExists, checked>>

\* the timer set with setTimeout(..., 25000) fires
TimerFire_DropsSession(r) ==
    /\ req[r].timer = "armed"
    /\ Settle(r, [req[r] EXCEPT !.timer = "fired"],
              Outcome("rejected", TimeoutText(req[r].kind)))
    /\ globalSocket' = 0
    /\ UNCHANGED <<started, sockState, connecting, attempts, loggedOut, clientState, heard,
                   emitted, lastStatus, msgVars, nreq, pdfExists, checked>>
TimerFire(r) ==
    /\ req[r].timer = "armed"
    /\ Settle(r, [req[r] EXCEPT !.timer = "fired"],
              Outcome("rejected", TimeoutText(req[r].kind)))
    /\ UNCHANGED <<sessionVars, clientState, heard, emitted, lastStatus, msgVars, nreq, pdfExists, checked>>

\* ------------------------------------------------------------ specification
Next ==
    \/ Start
    \/ ConnectFinish
    \/ ConnectFail
    \/ \E s \in Socks : UpdateQr(s)
    \/ \E s \in Socks : UpdateOpen(s)
    \/ \E s \in Socks, reason \in CloseReasons : UpdateClose(s, reason)
    \/ \E s \in Socks, reason \in CloseReasons : UpdateCloseLate(s, reason)
    \/ \E s \in Socks, batch \in Batches : MessagesUpsert(s, batch)
    \/ \E c \in Clients : ClientConnect(c)
    \/ \E c \in Clients : ClientDisconnect(c)
    \/ AssetChange
    \/ \E c \in Clients : CheckStatus(c)
    \/ \E c \in Clients, number \in NumberInputs : nreq < MaxReq /\ SendMessage(c, number)
    \/ \E c \in Clients, number \in NumberInputs : nreq < MaxReq /\ SendPdf(c, number)
    \/ \E r \in Reqs : NetAck(r)
    \/ \E r \in Reqs, reason \in NetReasons : NetFail(r, reason)
    \/ \E r \in Reqs : TimerFire(r)

Spec == Init /\ [][Next]_vars

\* the session, its broadcasts and check_status, with no send in flight
NextSession ==
    \/ Start
    \/ ConnectFinish
    \/ ConnectFail
    \/ \E s \in Socks : UpdateQr(s)
    \/ \E s \in Socks : UpdateOpen(s)
    \/ \E s \in Socks, reason \in CloseReasons : UpdateClose(s, reason)
    \/ \E s \in Socks, batch \in Batches : MessagesUpsert(s, batch)
    \/ \E c \in Clients : ClientConnect(c)
    \/ \E c \in Clients : ClientDisconnect(c)
    \/ \E c \in Clients : CheckStatus(c)

SessionSpec == Init /\ [][NextSession]_vars

\* the session and check_status, with no inbound message and no send
NextConnection ==
    \/ Start
    \/ ConnectFinish
    \/ ConnectFail
    \/ \E s \in Socks : UpdateQr(s)
    \/ \E s \in Socks : UpdateOpen(s)
    \/ \E s \in Socks, reason \in CloseReasons : UpdateClose(s, reason)
    \/ \E c \in Clients : ClientConnect(c)
    \/ \E c \in Clients : ClientDisconnect(c)
    \/ \E c \in Clients : CheckStatus(c)

ConnectionSpec == Init /\ [][NextConnection]_vars

\* the send handlers against the session, with no inbound message and no check_status
NextSend ==
    \/ Start
    \/ ConnectFinish
    \/ \E s \in Socks : UpdateQr(s)
    \/ \E s \in Socks : UpdateOpen(s)
    \/ \E s \in Socks, reason \in CloseReasons : UpdateClose(s, reason)
    \/ \E c \in Clients : ClientConnect(c)
    \/ \E c \in Clients : ClientDisconnect(c)
    \/ AssetChange
    \/ \E c \in Clients, number \in NumberInputs : nreq < MaxReq /\ SendMessage(c, number)
    \/ \E c \in Clients, number \in NumberInputs : nreq < MaxReq /\ SendPdf(c, number)
    \/ \E r \in Reqs : NetAck(r)
    \/ \E r \in Reqs, reason \in NetReasons : NetFail(r, reason)
    \/ \E r \in Reqs : TimerFire(r)

SendSpec == Init /\ [][NextSend]_vars

\* the event loop runs every timer that was set
FairSpec == SendSpec /\ \A r \in Reqs : WF_vars(TimerFire(r))

\* the send handlers and check_status against the session
NextStatus ==
    \/ NextSend
    \/ \E c \in Clients : CheckStatus(c)

StatusSpec == Init /\ [][NextStatus]_vars

\* the session when a socket may deliver 'close' again after it was replaced
NextLate ==
    \/ Start
    \/ ConnectFinish
    \/ ConnectFail
    \/ \E s \in Socks : UpdateQr(s)
    \/ \E s \in Socks : UpdateOpen(s)
    \/ \E s \in Socks, reason \in CloseReasons : UpdateClose(s, reason)
    \/ \E s \in Socks, reason \in CloseReasons : UpdateCloseLate(s, reason)
    \/ \E c \in Clients : ClientConnect(c)
    \/ \E c \in Clients : ClientDisconnect(c)

LateSpec == Init /\ [][NextLate]_vars

\* overlapping sends and check_status once the first socket exists
NextConcurrent ==
    \/ Start
    \/ ConnectFinish
    \/ \E c \in Clients : ClientConnect(c)
    \/ \E c \in Clients : CheckStatus(c)
    \/ \E c \in Clients, number \in NumberInputs : SendMessage(c, number)
    \/ \E c \in Clients, number \in NumberInputs : SendPdf(c, number)
    \/ \E r \in Reqs : NetAck(r)
    \/ \E r \in Reqs, reason \in NetReasons : NetFail(r, reason)
    \/ \E r \in Reqs : TimerFire(r)

ConcurrentSpec == Init /\ [][NextConcurrent]_vars

\* the await of a call of connectToWhatsApp settles: it goes on or it throws
FairSessionSpec == SessionSpec /\ WF_vars(ConnectFinish \/ ConnectFail)

\* ------------------------------------------------------------------ claims
Dispatched(rec) == rec.race.st # "none"
Racing(rec) == rec.race.st = "pending"
\* the step is the arrival of request r
Arrives(r) == req[r].kind = "none" /\ req'[r].kind # "none"
BroadcastTypes == {"qr", "connection_status", "new_message"}

\* C1: a send_message or send_pdf that arrives while the session is not Connected is
\* answered SessionNotConnected and sock.sendMessage is not called for it.
C1_RejectedUnlessConnected ==
    [][\A r \in Reqs :
        (Arrives(r) /\ SessionState # "Connected")
            => /\ req'[r].answers = <<SessionNotConnected>>
               /\ req'[r].net = "none"]_vars

\* C2: the callback of every send_message and send_pdf is called exactly once: never
\* twice, and every request that arrived is eventually answered.
C2_AnsweredExactlyOnce ==
    /\ [](\A r \in Reqs : Len(req[r].answers) <= 1)
    /\ \A r \in Reqs : (req[r].kind # "none") ~> (Len(req[r].answers) = 1)

\* a network failure was reported once and the timer fired afterwards
C2_Witness ==
    \E r \in Reqs :
        /\ req[r].net = "failed"
        /\ req[r].timer = "fired"
        /\ req[r].answers = <<SendFailed(req[r].kind, req[r].netErr)>>

\* C3: when the timer fires while the send has not resolved, the answer is exactly
\* SendTimeout, and once SendTimeout is the answer no later step (a late
\* acknowledgement or failure of the network) adds an answer or changes it.
C3_TimeoutOnceAndFinal ==
    [][\A r \in Reqs :
        /\ (Racing(req[r]) /\ req[r].timer = "armed" /\ req'[r].timer = "fired")
              => req'[r].answers = <<SendTimeout(req[r].kind)>>
        /\ (Dispatched(req[r]) /\ req[r].answers = <<SendTimeout(req[r].kind)>>)
              => req'[r].answers = req[r].answers]_vars

\* SendTimeout was reported and the network operation completed afterwards
C3_Witness ==
    \E r \in Reqs :
        /\ req[r].timer = "fired"
        /\ req[r].net \in {"acked", "failed"}
        /\ req[r].answers = <<SendTimeout(req[r].kind)>>

\* C4: check_status answers connected = true, status 'connected' exactly when the
\* session is Connected.
C4_StatusReflectsState ==
    [][checked' # checked
        => /\ checked'.connected <=> SessionState = "Connected"
           /\ checked'.status = "connected" <=> SessionState = "Connected"]_vars

\* C5: a 'close' with reason loggedOut leaves the session Disconnected, starts no
\* connection attempt and none is started in any later step; a 'close' with any other
\* reason starts exactly one connection attempt in the same step.
C5_ReconnectUnlessLoggedOut ==
    [][/\ \A s \in Socks :
            (Alive(s) /\ sockState'[s] = "closed")
                => IF loggedOut'
                   THEN /\ attempts' = attempts
                        /\ connecting' = connecting
                        /\ SessionState' = "Disconnected"
                   ELSE /\ attempts' = attempts + 1
                        /\ connecting' = connecting + 1
                        /\ SessionState' = "Connecting"
       /\ loggedOut
            => attempts' = attempts /\ connecting' = connecting]_vars

\* a transient close was followed by a reconnection, and then the session logged out
C5_Witness ==
    /\ loggedOut
    /\ attempts = 2
    /\ globalSocket = 2
    /\ sockState[1] = "closed"

\* what a handler that broadcasts evs sends to client c
Sent(c, evs) == IF clientState[c] = "connected" THEN evs ELSE <<>>

\* C6: the events a handler broadcasts (connection_status, qr, and the new_message
\* events emitted for a 'messages.upsert') are sent, in order, to every client connected
\* at that moment and to no other client; a client is sent broadcasts only while
\* connected and has been sent none when it connects.
C6_BroadcastToConnected ==
    [][/\ \A s \in Socks :
            /\ (sockState[s] # "open" /\ sockState'[s] = "open")
                  => \A c \in Clients :
                        heard'[c] = Sent(c, <<Bc("connection_status", "connected")>>)
            /\ (sockState[s] # "closed" /\ sockState'[s] = "closed")
                  => \A c \in Clients :
                        heard'[c] = Sent(c, <<Bc("connection_status", "disconnected")>>)
            /\ (sockState[s] # "qr" /\ sockState'[s] = "qr")
                  => \A c \in Clients : heard'[c] = Sent(c, <<Bc("qr", "token")>>)
       /\ upserts' # upserts
            => \/ \A c \in Clients : heard'[c] = Sent(c, emitted')
               \/ heard' = heard /\ emitted' = emitted
       /\ \A c \in Clients :
            /\ (heard'[c] # heard[c] /\ heard'[c] # <<>>) => clientState[c] = "connected"
            /\ (clientState[c] = "new" /\ clientState'[c] = "connected")
                  => heard'[c] = <<>>]_vars

\* a broadcast of a new_message reached a connected client and did not reach a client
\* that connected after it
C6_Witness ==
    \E c, d \in Clients :
        /\ clientState[c] = "connected" /\ clientState[d] = "connected"
        /\ heard[c] # <<>> /\ heard[c][1].type = "new_message"
        /\ heard[d] = <<>>

\* C7: a dispatched send is answered by the first of the racing events: success when
\* the network acknowledges, SendFailed with the network's reason when the network
\* fails, SendTimeout when the timer fires; there is no other answer.
C7_FirstEventDecides ==
    [][\A r \in Reqs :
        /\ (Racing(req[r]) /\ req[r].net = "inflight" /\ req'[r].net = "acked")
              => req'[r].answers = <<Success(SuccessText(req[r].kind))>>
        /\ (Racing(req[r]) /\ req[r].net = "inflight" /\ req'[r].net = "failed")
              => req'[r].answers =
                    <<Failure(IF req'[r].netErr # "" THEN req'[r].netErr
                              ELSE DefaultErrorText(req[r].kind))>>
        /\ (Racing(req[r]) /\ req[r].timer = "armed" /\ req'[r].timer = "fired")
              => req'[r].answers = <<SendTimeout(req[r].kind)>>
        /\ (Dispatched(req[r]) /\ ~Racing(req[r])) => req'[r].answers = req[r].answers
        /\ Racing(req'[r]) => req'[r].answers = <<>>]_vars

\* the network failed with a reason before the deadline and that reason is the answer
C7_Witness ==
    \E r \in Reqs :
        /\ req[r].net = "failed" /\ req[r].netErr # ""
        /\ req[r].timer = "armed"
        /\ req[r].answers = <<Failure(req[r].netErr)>>

\* C8: the result of a request is sent to the client that issued it and to no other
\* client, and no result is among the broadcasts.
C8_ResultToRequesterOnly ==
    /\ \A c \in Clients : \A ev \in inbox[c] :
            ev.type = "result" => req[ev.id].client = c
    /\ \A i \in 1..Len(emitted) : emitted[i].type \in BroadcastTypes
    /\ \A c \in Clients : \A i \in 1..Len(heard[c]) : heard[c][i].type \in BroadcastTypes

\* the requester has its result while another client is connected
C8_Witness ==
    \E r \in Reqs, d \in Clients :
        /\ req[r].kind # "none" /\ req[r].client # d
        /\ clientState[d] = "connected"
        /\ Event("result", r, SuccessText(req[r].kind)) \in inbox[req[r].client]

\* C9 as stated: a send_pdf that arrives while the asset is absent is answered
\* ResourceMissing and sock.sendMessage is not called, whatever the session state.
C9_MissingAssetAlways ==
    [][\A r \in Reqs :
        (Arrives(r) /\ req'[r].kind = "send_pdf" /\ ~pdfExists)
            => /\ req'[r].answers = <<ResourceMissing>>
               /\ req'[r].net = "none"]_vars

\* C9 amended: a send_pdf that arrives while the asset is absent never calls
\* sock.sendMessage; it is answered ResourceMissing when a session socket exists and
\* the number is a string, SessionNotConnected when no session socket exists, and
\* with the TypeError's message when a socket exists and the number is no string.
C9_MissingAsset ==
    [][\A c \in Clients, number \in NumberInputs :
        (SendPdf(c, number) /\ ~pdfExists)
            => /\ req'[nreq'].net = "none"
               /\ req'[nreq'].answers =
                    <<IF globalSocket = 0 THEN SessionNotConnected
                      ELSE IF number = Undefined THEN TypeErrorResult
                      ELSE ResourceMissing>>]_vars

\* a send_pdf was answered ResourceMissing
C9_Witness ==
    \E r \in Reqs :
        /\ req[r].kind = "send_pdf"
        /\ req[r].answers = <<ResourceMissing>>
        /\ req[r].net = "none"
        /\ ~pdfExists

KeepAliveOnlyToRequester ==
    \A c \in Clients : \A ev \in inbox[c] :
        ev.type = "keep_alive" => req[ev.id].client = c

\* C10 as stated: a dispatched send emits one keep_alive before the dispatch and one
\* after it ends, on every outcome, and only to the requester.
C10_KeepAliveEveryOutcome ==
    /\ KeepAliveOnlyToRequester
    /\ \A r \in Reqs :
        Dispatched(req[r])
            => /\ req[r].kaBefore = 1
               /\ req[r].answers # <<>> => req[r].kaAfter = 1

\* C10 amended: a dispatched send emits one keep_alive before the dispatch; it emits
\* one more after the dispatch exactly when the dispatch succeeded, and none after a
\* network failure or a timeout; keep_alive goes only to the requester.
C10_KeepAliveOnSuccess ==
    /\ KeepAliveOnlyToRequester
    /\ \A r \in Reqs :
        /\ Dispatched(req[r])
            => /\ req[r].kaBefore = 1
               /\ req[r].kaAfter =
                    (IF req[r].answers = <<Success(SuccessText(req[r].kind))>> THEN 1 ELSE 0)
        /\ ~Dispatched(req[r]) => req[r].kaBefore = 0 /\ req[r].kaAfter = 0

\* a send timed out: one keep_alive before, none after, while another client is connected
C10_Witness ==
    \E r \in Reqs, d \in Clients :
        /\ req[r].answers = <<SendTimeout(req[r].kind)>>
        /\ req[r].kaBefore = 1 /\ req[r].kaAfter = 0
        /\ Event("keep_alive", r, "before") \in inbox[req[r].client]
        /\ d # req[r].client /\ clientState[d] = "connected"

\* C11: after a close whose reason is not loggedOut the session never stays
\* Disconnected for ever, also when a reconnection attempt itself failed: from every
\* state where a socket has closed, the last close was no logout and the session is
\* Disconnected, the session eventually leaves Disconnected.
C11_NeverStuckWithoutLogout ==
    []((/\ \E s \in Socks : sockState[s] = "closed"
        /\ ~loggedOut
        /\ SessionState = "Disconnected")
          => <>(SessionState # "Disconnected"))

\* the messages of a batch that carry a payload and are not the account's own
Payload(m) == m.has /\ ~m.fromMe
Kept(batch) == SelectSeq(batch, Payload)
Marker == "Mensaje multimedia"
\* the plain text of a message: its conversation, else its extended text
PlainText(m) == IF m.conversation # "" THEN m.conversation ELSE m.extText

\* C12 as stated: the body of every broadcast new_message is the plain text when
\* non-empty, else the caption of the media attachment (image or video) when present,
\* else the multimedia marker.
C12_BodyAnyCaption ==
    [][upserts' # upserts => \A s \in Socks, batch \in Batches :
        MessagesUpsert(s, batch)
            => \A i \in 1..Len(Kept(batch)) :
                LET m == Kept(batch)[i] IN
                emitted'[i].arg =
                    (IF PlainText(m) # "" THEN PlainText(m)
                     ELSE IF m.caption # "" THEN m.caption
                     ELSE IF m.videoCaption # "" THEN m.videoCaption
                     ELSE Marker)]_vars

\* C12 amended: the body of every broadcast new_message is the plain text when
\* non-empty, else the caption of an image attachment when non-empty, else the
\* multimedia marker; the caption of a video attachment is not used, so a video with
\* a caption and no text is broadcast with the marker, as is an image without caption.
C12_BodyImageCaption ==
    [][upserts' # upserts => \A s \in Socks, batch \in Batches :
        MessagesUpsert(s, batch)
            => \A i \in 1..Len(Kept(batch)) :
                LET m == Kept(batch)[i] IN
                /\ emitted'[i].type = "new_message"
                /\ emitted'[i].arg =
                    (IF PlainText(m) # "" THEN PlainText(m)
                     ELSE IF m.caption # "" THEN m.caption
                     ELSE Marker)
                /\ (PlainText(m) = "" /\ m.caption = "") => emitted'[i].arg = Marker]_vars

\* one batch was broadcast as an image caption followed by the marker
C12_Witness ==
    /\ emitted = <<Bc("new_message", "foto"), Bc("new_message", Marker)>>
    /\ \E c \in Clients : heard[c] = emitted

IsDigit(ch) == ch \in DigitChars

\* C13: for send_message and send_pdf alike, the recipient handed to sock.sendMessage
\* is the digits of the number the client supplied, in their order, with every other
\* character removed, followed by the recipient suffix; a request that is not
\* dispatched hands no recipient to the network.
C13_RecipientIsDigits ==
    [][\A c \in Clients, number \in NumberInputs :
        (SendMessage(c, number) \/ SendPdf(c, number))
            => IF req'[nreq'].net = "inflight"
               THEN req'[nreq'].jid = SelectSeq(number, IsDigit) \o <<"@s.whatsapp.net">>
               ELSE req'[nreq'].jid = <<>> /\ req'[nreq'].net = "none"]_vars

\* a send_pdf is in flight to the recipient 57@s.whatsapp.net
C13_Witness ==
    \E r \in Reqs :
        /\ req[r].kind = "send_pdf"
        /\ req[r].net = "inflight"
        /\ req[r].jid = <<"5", "7", "@s.whatsapp.net">>

\* C14: check_status can be answered in every reachable state by every connected
\* client, and the step that handles it gives the answer itself, whatever the session
\* state and however many sends are pending, and touches no request.
C14_StatusAlwaysAnswerable ==
    /\ [](\A c \in Clients : clientState[c] = "connected" => ENABLED CheckStatus(c))
    /\ [][\A c \in Clients :
            CheckStatus(c)
                => /\ checked'.status \in {"connected", "disconnected"}
                   /\ checked'.during = SessionState
                   /\ checked'.pending = Cardinality({r \in Reqs : Racing(req[r])})
                   /\ req' = req /\ inbox' = inbox]_vars

\* check_status was answered while a send was pending and the session was not Connected
C14_Witness ==
    /\ checked.pending = 1
    /\ checked.during = "AwaitingChallenge"
    /\ checked.status = "connected"

\* C15: in every reachable state at most one session socket is open or attempting to
\* connect, counting the calls of connectToWhatsApp that have not made their socket
\* yet, whatever the network events are, repeated or late 'close' events of a replaced
\* socket included.
C15_OneLiveSocket ==
    Cardinality({s \in Socks : Alive(s)}) + connecting <= 1

\* C16: a pending send delays no other request. While a send waits on the network or
\* on its deadline, every connected client can have check_status answered and, as long
\* as a request id is free, a send_message or send_pdf handled; every in-flight network
\* operation can complete and every armed timer can fire, whatever the other requests
\* are doing; and a step that changes one request changes no other.
C16_PendingDelaysNoOther ==
    /\ [](\A r \in Reqs : Racing(req[r]) =>
            /\ \A c \in Clients : clientState[c] = "connected" =>
                    /\ ENABLED CheckStatus(c)
                    /\ nreq < MaxConcurrent =>
                            \A number \in NumberInputs :
                                ENABLED SendMessage(c, number) /\ ENABLED SendPdf(c, number)
            /\ \A q \in Reqs :
                    /\ req[q].timer = "armed" => ENABLED TimerFire(q)
                    /\ req[q].net = "inflight" => ENABLED NetAck(q))
    /\ [][\A r, q \in Reqs : (r # q /\ req'[q] # req[q]) => req'[r] = req[r]]_vars

\* with the send of one client still pending and its timer armed, the later send of
\* another client timed out, after check_status was answered with both pending
C16_Witness ==
    /\ Racing(req[1]) /\ req[1].timer = "armed"
    /\ req[2].answers = <<SendTimeout(req[2].kind)>>
    /\ req[1].client # req[2].client
    /\ checked.pending = 2

C18_OnePerKeptMessage ==
    [][/\ upserts' # upserts => \A s \in Socks, batch \in Batches :
            MessagesUpsert(s, batch)
                => IF Kept(batch) = <<>>
                   THEN emitted' = emitted /\ heard' = heard
                   ELSE /\ Len(emitted') = Len(Kept(batch))
                        /\ \A i \in 1..Len(Kept(batch)) :
                              emitted'[i] = Bc("new_message", MessageBody(Kept(batch)[i]))
       /\ (upserts' = upserts /\ emitted' # emitted)
            => \A i \in 1..Len(emitted') : emitted'[i].type # "new_message"]_vars

\* a batch of two messages was broadcast as two new_message events in its order
C18_Witness ==
    /\ upserts = 1
    /\ emitted = <<Bc("new_message", "enlace"), Bc("new_message", "hola")>>
    /\ \E c \in Clients : heard[c] = emitted

\* a step of the session manager: the connect routine or a connection event
SessionStep ==
    \/ Start
    \/ ConnectFinish
    \/ ConnectFail
    \/ \E s \in Socks : UpdateQr(s) \/ UpdateOpen(s)
    \/ \E s \in Socks, reason \in CloseReasons : UpdateClose(s, reason)

\* C19: a step in which a client operation acts (a send arrives, is rejected, is
\* dispatched or is settled by acknowledgement, failure or timeout; check_status is
\* answered; a client connects or disconnects) leaves the session reference and the
\* session state as they were, and a step that changes either of them is a step of the
\* connect routine or a connection event.
C19_ClientOpsLeaveSession ==
    [][/\ (req' # req \/ nreq' # nreq \/ inbox' # inbox \/ checked' # checked
              \/ clientState' # clientState)
            => /\ globalSocket' = globalSocket
               /\ SessionState' = SessionState
               /\ sockState' = sockState /\ connecting' = connecting
       /\ (globalSocket' # globalSocket \/ SessionState' # SessionState) => SessionStep]_vars

\* with the session Connected, a send timed out, check_status was answered while it was
\* pending and a client has disconnected
C19_Witness ==
    /\ SessionState = "Connected"
    /\ \E r \in Reqs : req[r].answers = <<SendTimeout(req[r].kind)>>
    /\ checked.pending = 1 /\ checked.during = "Connected"
    /\ \E c \in Clients : clientState[c] = "gone"

\* C20: the session reference is set exactly when the first socket has been created
\* and is never cleared afterwards; every check_status answered once a socket has been
\* created says connected = true, status 'connected', whatever close, logout or
\* reconnection came before it, and every one answered earlier says connected = false,
\* status 'disconnected'.
C20_StatusMonotone ==
    /\ [](globalSocket # 0 <=> Created > 0)
    /\ [][/\ globalSocket # 0 => globalSocket' # 0
          /\ \A c \in Clients :
                CheckStatus(c)
                    => IF Created > 0
                       THEN checked'.connected /\ checked'.status = "connected"
                       ELSE ~checked'.connected /\ checked'.status = "disconnected"]_vars

\* check_status answered connected while the session was Disconnected after a logout
C20_Witness ==
    /\ checked.connected /\ checked.status = "connected"
    /\ checked.during = "Disconnected"
    /\ loggedOut /\ SessionState = "Disconnected"

\* C21: the step in which a socket closes for a reason other than loggedOut broadcasts
\* connection_status 'disconnected' while the replacement is only a pending call of
\* connectToWhatsApp: no socket is created and the session reference is not changed in
\* that step. The replacement socket is created and installed in a later step, which
\* broadcasts nothing, when its predecessor has closed and 'disconnected' is the last
\* connection_status broadcast; so every broadcast of the replacement comes after it.
C21_DisconnectedBeforeReplacement ==
    [][\A s \in Socks :
        /\ (Alive(s) /\ sockState'[s] = "closed" /\ ~loggedOut')
              => /\ emitted' = <<Bc("connection_status", "disconnected")>>
                 /\ lastStatus' = "disconnected"
                 /\ Created' = Created
                 /\ globalSocket' = globalSocket
                 /\ connecting' = connecting + 1
        /\ (sockState[s] = "none" /\ sockState'[s] # "none")
              => /\ globalSocket' = s
                 /\ emitted' = emitted /\ heard' = heard /\ lastStatus' = lastStatus
                 /\ s > 1 => /\ sockState[s - 1] = "closed"
                             /\ lastStatus = "disconnected"
        /\ (s > 1 /\ sockState[s] # sockState'[s] /\ sockState[s] # "none")
              => sockState[s - 1] = "closed"]_vars

\* socket 1 closed without logout, 'disconnected' was broadcast to a connected client,
\* and the replacement socket 2 has since been installed and has broadcast its qr
C21_Witness ==
    /\ sockState[1] = "closed" /\ sockState[2] = "qr"
    /\ globalSocket = 2
    /\ lastStatus = "disconnected"
    /\ emitted = <<Bc("qr", "token")>>
    /\ \E c \in Clients : heard[c] = emitted

====
